---------------------------- MODULE Spec2Model ----------------------------
(***************************************************************************)
(* Model of options_scanner.py: the two source adapters (yfinance and      *)
(* Alpha Vantage), the aggregator get_and_save_aggregate_options_chain and *)
(* the expiration filter get_and_save_earliest_expiring_contracts.         *)
(*                                                                         *)
(* Text (contract ids, dates, file names) is a sequence of ASCII codes so  *)
(* that Python's string comparison is the lexicographic order on codes.    *)
(* A float is a record: a finite value counted in thousandths, or infinity.*)
(***************************************************************************)
EXTENDS Integers, Sequences, FiniteSets, TLC

VARIABLES
    files,   \* the file system: path -> how many times the file was written
    calls,   \* number of invocations made so far
    call     \* the last invocation: its arguments, what its collaborators
             \* returned, and its outcome

vars == <<files, calls, call>>

-----------------------------------------------------------------------------
(* Bounds of the model *)

MaxRaw == 2      \* raw contracts in one Alpha Vantage response
MaxDates == 2    \* expiration dates listed by yfinance for one ticker
MaxRows == 1     \* rows in one calls/puts frame of yfinance
MaxSnap == 3     \* rows of a snapshot handed to the expiration filter
MaxCalls == 2    \* invocations in one behaviour
MaxDay == 1      \* days the wall clock ranges over, after the first one
MaxSec == 1      \* seconds of a day the wall clock ranges over, after 00:00:00
MaxSub == 1      \* sub-second instants within one second, after the first

-----------------------------------------------------------------------------
(* Text *)

Dash == <<45>>
Underscore == <<95>>
Digit(n) == 48 + n
Pad2(n) == <<Digit((n \div 10) % 10), Digit(n % 10)>>
Pad4(n) == <<Digit((n \div 1000) % 10), Digit((n \div 100) % 10)>> \o Pad2(n % 100)

\* Python's str < str: the first differing character decides, a proper
\* prefix is smaller.
StrLess(a, b) ==
    \E i \in 1..(Len(a) + 1) :
        /\ \A j \in 1..(i - 1) : j <= Len(b) /\ a[j] = b[j]
        /\ IF i = Len(a) + 1 THEN Len(b) >= i
                             ELSE i <= Len(b) /\ a[i] < b[i]

StrLeq(a, b) == a = b \/ StrLess(a, b)

-----------------------------------------------------------------------------
(* The wall clock read by datetime.now() *)

Clock == [day : 0..MaxDay, sec : 0..MaxSec, sub : 0..MaxSub]

\* Calendar date of day n of the clock's range; day 0 is 2025-01-30.
DateOf(n) ==
    IF 30 + n <= 31 THEN [y |-> 2025, m |-> 1, d |-> 30 + n]
                    ELSE [y |-> 2025, m |-> 2, d |-> n - 1]

\* strftime("%Y-%m-%d")
StrfDate(t) ==
    LET c == DateOf(t.day)
    IN  Pad4(c.y) \o Dash \o Pad2(c.m) \o Dash \o Pad2(c.d)

\* strftime("%H-%M-%S"): the sub-second part of the instant is dropped.
StrfTime(t) ==
    Pad2(t.sec \div 3600) \o Dash \o Pad2((t.sec \div 60) % 60) \o Dash \o Pad2(t.sec % 60)

-----------------------------------------------------------------------------
(* Values of the providers' payloads and Python's coercions of them *)

Txt(s) == [k |-> "text", s |-> s]           \* a string that is no numeral
IntText(n) == [k |-> "int_text", v |-> n]   \* a string such as "5"
DecText(th) == [k |-> "dec_text", v |-> th] \* a string such as "12.345"
Num(th) == [k |-> "num", v |-> th]          \* a finite JSON number
Null == [k |-> "null"]                      \* JSON null
Inf == [k |-> "inf"]                        \* a JSON number beyond the float range, 1e999

Float(th) == [inf |-> FALSE, th |-> th]     \* the float of th thousandths
PosInf == [inf |-> TRUE, th |-> 0]          \* float('inf')

Returned(v) == [exc |-> "none", val |-> v]
Raised(e) == [exc |-> e]

\* contract[key]
Index(contract, key) ==
    IF key \in DOMAIN contract THEN Returned(contract[key]) ELSE Raised("KeyError")

\* contract.get(key, default)
Get(contract, key, default) ==
    IF key \in DOMAIN contract THEN contract[key] ELSE default

\* float(v)
PyFloat(v) ==
    CASE v.k = "int_text" -> Returned(Float(v.v * 1000))
      [] v.k = "dec_text" -> Returned(Float(v.v))
      [] v.k = "num"      -> Returned(Float(v.v))
      [] v.k = "inf"      -> Returned(PosInf)
      [] v.k = "text"     -> Raised("ValueError")
      [] v.k = "null"     -> Raised("TypeError")

\* int(v): a decimal numeral given as text is refused, a finite number is
\* truncated, an infinite one overflows
PyInt(v) ==
    CASE v.k = "int_text" -> Returned(v.v)
      [] v.k = "dec_text" -> Raised("ValueError")
      [] v.k = "num"      -> Returned(v.v \div 1000)
      [] v.k = "inf"      -> Raised("OverflowError")
      [] v.k = "text"     -> Raised("ValueError")
      [] v.k = "null"     -> Raised("TypeError")

\* What a value looks like once stored in a row: text is its characters
Stored(v) == IF v.k = "text" THEN v.s ELSE v

\* The exception of the first step that raised, "none" when none did
FirstRaised(steps) ==
    IF \E i \in 1..Len(steps) : steps[i].exc # "none"
    THEN LET i == CHOOSE i \in 1..Len(steps) :
                     /\ steps[i].exc # "none"
                     /\ \A j \in 1..(i - 1) : steps[j].exc = "none"
         IN  steps[i].exc
    ELSE "none"

-----------------------------------------------------------------------------
(* Source adapter: Alpha Vantage *)

\* The dict literal option_data = {...}: its entries are evaluated in order
OptionData(contract) ==
    LET contract_id == Index(contract, "contractID")
        type == Index(contract, "type")
        strikeRaw == Index(contract, "strike")
        strike == IF strikeRaw.exc = "none" THEN PyFloat(strikeRaw.val) ELSE strikeRaw
        expiration == Index(contract, "expiration")
        volume == PyInt(Get(contract, "volume", Num(0)))
        open_interest == PyInt(Get(contract, "open_interest", Num(0)))
        implied_volatility == PyFloat(Get(contract, "implied_volatility", Num(0)))
        bid == PyFloat(Get(contract, "bid", Num(0)))
        ask == PyFloat(Get(contract, "ask", Num(0)))
        exc == FirstRaised(<<contract_id, type, strike, expiration, volume,
                             open_interest, implied_volatility, bid, ask>>)
    IN  IF exc # "none" THEN Raised(exc)
        ELSE Returned([contract_id |-> Stored(contract_id.val),
                       type |-> Stored(type.val),
                       strike |-> strike.val,
                       expiration |-> Stored(expiration.val),
                       volume |-> volume.val,
                       open_interest |-> open_interest.val,
                       implied_volatility |-> implied_volatility.val,
                       bid |-> bid.val,
                       ask |-> ask.val])

\* except (KeyError, ValueError, TypeError): continue
SkippedPerContract == {"KeyError", "ValueError", "TypeError"}

\* for contract in options_data: ... all_options.append(option_data)
RECURSIVE ProcessContracts(_, _)
ProcessContracts(options_data, all_options) ==
    IF options_data = <<>> THEN [exc |-> "none", rows |-> all_options]
    ELSE LET r == OptionData(Head(options_data))
         IN  IF r.exc = "none"
             THEN ProcessContracts(Tail(options_data), Append(all_options, r.val))
             ELSE IF r.exc \in SkippedPerContract
             THEN ProcessContracts(Tail(options_data), all_options)
             ELSE [exc |-> r.exc, rows |-> all_options]

Ok(rows) == [status |-> "ok", rows |-> rows]
Failed(error) == [status |-> "error", error |-> error]

\* get_options_chain_from_alphavantage: every failure leaves as a ValueError;
\* the error names the raise it comes from.
GetOptionsChainFromAlphavantage(response) ==
    CASE response.kind = "no_api_key" -> Failed("Unexpected")
      [] response.kind = "request_exception" -> Failed("TransportError")
      [] response.kind = "error_message" -> Failed("ProviderError")
      [] response.kind = "empty" -> Failed("NoDataAvailable")
      [] response.kind = "json" ->
            LET options_data == IF "data" \in DOMAIN response.body
                                THEN response.body.data ELSE <<>>
                p == ProcessContracts(options_data, <<>>)
            IN  IF p.exc # "none" THEN Failed("Unexpected")
                ELSE IF p.rows = <<>> THEN Failed("NoValidRecords")
                ELSE Ok(p.rows)

-----------------------------------------------------------------------------
(* Source adapter: yfinance *)

\* df.rename(columns=columns) and df[[...]] for one frame, after
\* df['type'] = type and df['expiration'] = date
SelectedFrame(frame, type, date) ==
    [i \in 1..Len(frame.rows) |->
        [contract_id |-> frame.rows[i].contractSymbol,
         type |-> type,
         strike |-> frame.rows[i].strike,
         expiration |-> date,
         volume |-> frame.rows[i].volume,
         open_interest |-> frame.rows[i].openInterest,
         implied_volatility |-> frame.rows[i].impliedVolatility,
         bid |-> frame.rows[i].bid,
         ask |-> frame.rows[i].ask]]

\* The body of "for date in expiration_dates": the frames one date appends to
\* all_options before the date ends or an exception sends it to "continue".
\* option_chain(date) may raise; .copy() raises on what is no frame, before
\* anything is appended; the column selection of a frame that lacks a column
\* raises inside "for df in [calls_df, puts_df]", the calls before the puts.
FramesOfDate(chain, date) ==
    IF chain.fetch = "raise" THEN <<>>
    ELSE IF chain.calls.kind = "none" \/ chain.puts.kind = "none" THEN <<>>
    ELSE IF ~chain.calls.columns_ok THEN <<>>
    ELSE IF ~chain.puts.columns_ok THEN <<SelectedFrame(chain.calls, "call", date)>>
    ELSE <<SelectedFrame(chain.calls, "call", date),
           SelectedFrame(chain.puts, "put", date)>>

\* all_options after the loop over expiration_dates
RECURSIVE AllOptions(_, _)
AllOptions(expiration_dates, chain) ==
    IF expiration_dates = <<>> THEN <<>>
    ELSE FramesOfDate(chain[Head(expiration_dates)], Head(expiration_dates))
            \o AllOptions(Tail(expiration_dates), chain)

\* pd.concat(all_options, ignore_index=True)
RECURSIVE PdConcat(_)
PdConcat(frames) ==
    IF frames = <<>> THEN <<>> ELSE Head(frames) \o PdConcat(Tail(frames))

\* get_options_chain_from_yfinance
GetOptionsChainFromYfinance(response) ==
    IF response.kind = "raise" THEN Failed("Unexpected")
    ELSE IF response.options = <<>> THEN Failed("NoDataAvailable")
    ELSE LET all_options == AllOptions(response.options, response.chain)
         IN  IF all_options = <<>> THEN Failed("NoValidRecords")
             ELSE Ok(PdConcat(all_options))

-----------------------------------------------------------------------------
(* Aggregator *)

\* yf_data['source'] = 'yfinance'; av_data['source'] = 'alphavantage'
Tagged(rows, source) ==
    [i \in 1..Len(rows) |-> rows[i] @@ ("source" :> source)]

\* A merge that drops the Alpha Vantage rows whose contract_id yfinance has too
CombinedDeduplicated(yf_rows, av_rows) ==
    LET Fresh(row) == \A i \in 1..Len(yf_rows) : yf_rows[i].contract_id # row.contract_id
    IN  Tagged(yf_rows, "yfinance") \o Tagged(SelectSeq(av_rows, Fresh), "alphavantage")

\* pd.concat([yf_data, av_data], ignore_index=True)
Combined(yf_rows, av_rows) ==
    Tagged(yf_rows, "yfinance") \o Tagged(av_rows, "alphavantage")

\* round(2) of a float, ties to the even hundredth
Round2(x) ==
    IF x.inf THEN x
    ELSE LET q == x.th \div 10
             r == x.th % 10
         IN  IF r < 5 THEN Float(q * 10)
             ELSE IF r > 5 THEN Float((q + 1) * 10)
             ELSE IF q % 2 = 0 THEN Float(q * 10)
             ELSE Float((q + 1) * 10)

\* for col in decimal_columns: aggregate_data[col] = aggregate_data[col].round(2)
Rounded(rows) ==
    [i \in 1..Len(rows) |->
        [rows[i] EXCEPT !.strike = Round2(@), !.implied_volatility = Round2(@),
                        !.bid = Round2(@), !.ask = Round2(@)]]

\* The sequences obtained by putting row x into the sorted sequence s at a
\* place that keeps it sorted by contract_id
Inserted(s, x) ==
    {SubSeq(s, 1, k) \o <<x>> \o SubSeq(s, k + 1, Len(s)) : k \in
        {k \in 0..Len(s) :
            /\ \A j \in 1..k : StrLeq(s[j].contract_id, x.contract_id)
            /\ \A j \in (k + 1)..Len(s) : StrLeq(x.contract_id, s[j].contract_id)}}

\* A sort that leaves the rows as they are
Unsorted(rows) == {rows}

\* sort_values('contract_id', ascending=True): the default sort is not a
\* stable one, so rows with equal contract_id may come out in any order.
\* The set of the outcomes it can produce.
RECURSIVE SortValues(_)
SortValues(rows) ==
    IF rows = <<>> THEN {<<>>}
    ELSE UNION {Inserted(s, Head(rows)) : s \in SortValues(Tail(rows))}

OptionsChainText == <<95, 111, 112, 116, 105, 111, 110, 115, 95, 99, 104, 97, 105, 110, 95>>
AsOfText == <<95, 97, 115, 95, 111, 102, 95>>
CsvText == <<46, 99, 115, 118>>
Slash == <<47>>

\* f"{exchange}_{ticker}_options_chain_{date_str}_as_of_{time_str}.csv"
Filename(exchange, ticker, current_time) ==
    exchange \o Underscore \o ticker \o OptionsChainText \o StrfDate(current_time)
        \o AsOfText \o StrfTime(current_time) \o CsvText

\* os.path.join(output_dir, filename), output_dir not ending in a separator
Filepath(output_dir, filename) == output_dir \o Slash \o filename

\* '%.2f' of a float: the text "inf", or the digits of its hundredths
Format2f(x) ==
    IF x.inf THEN <<105, 110, 102>>
    ELSE LET h == Round2(x).th \div 10
         IN  Pad4(h \div 100) \o <<46>> \o Pad2(h % 100)

\* to_csv(filepath, index=False, float_format='%.2f'): the rows of the file
ToCsv2f(rows) ==
    [i \in 1..Len(rows) |->
        [rows[i] EXCEPT !.strike = Format2f(@), !.implied_volatility = Format2f(@),
                        !.bid = Format2f(@), !.ask = Format2f(@)]]

\* The file system after an invocation that wrote the files of wrote (none,
\* or one): the file is created or replaced. The file system keeps, for each
\* path, how many times it was written; the rows last written are in the
\* invocation's own record.
Written(fs, wrote) ==
    LET paths == {wrote[i].path : i \in 1..Len(wrote)}
    IN  [p \in DOMAIN fs \cup paths |->
            IF p \in paths
            THEN [writes |-> IF p \in DOMAIN fs THEN fs[p].writes + 1 ELSE 1]
            ELSE fs[p]]

\* An aggregator that goes on with what the adapters that returned gave
AnyReturned(yf_data, av_data) == yf_data.status = "ok" \/ av_data.status = "ok"

\* Both adapter calls returned: an exception of either leaves the try block
BothReturned(yf_data, av_data) == yf_data.status = "ok" /\ av_data.status = "ok"

RowsOf(data) == IF data.status = "ok" THEN data.rows ELSE <<>>

\* get_and_save_aggregate_options_chain: the set of its possible outcomes, each
\* the value returned or the error raised, and the file written if any
GetAndSaveAggregateOptionsChain(exchange, ticker, output_dir, current_time, yf_data, av_data) ==
    IF ~BothReturned(yf_data, av_data)
    THEN {[result |-> Failed("CombineError"), wrote |-> <<>>]}
    ELSE LET aggregate_data == Rounded(Combined(RowsOf(yf_data), RowsOf(av_data)))
             filepath == Filepath(output_dir, Filename(exchange, ticker, current_time))
         IN  {[result |-> Ok(sorted),
               wrote |-> <<[path |-> filepath, content |-> ToCsv2f(sorted)]>>] :
                 sorted \in SortValues(aggregate_data)}

-----------------------------------------------------------------------------
(* Expiration filter *)

EarliestCsvPath ==
    <<101, 97, 114, 108, 105, 101, 115, 116, 95, 101, 120, 112, 105, 114, 105, 110, 103,
      95, 99, 111, 110, 116, 114, 97, 99, 116, 115, 46, 99, 115, 118>>

\* A filter that has no early return
NeverEmptyFrame(options_chain_df) == FALSE

\* options_chain_df.empty
IsEmptyFrame(options_chain_df) == options_chain_df = <<>>

\* A filter that forgets to compare with today
AllExpirations(options_chain_df, current_date_str) ==
    {options_chain_df[i].expiration : i \in 1..Len(options_chain_df)}

\* df[df['expiration'] >= current_date_str]['expiration']
FutureExpirations(options_chain_df, current_date_str) ==
    {options_chain_df[i].expiration : i \in
        {i \in 1..Len(options_chain_df) :
            StrLeq(current_date_str, options_chain_df[i].expiration)}}

\* min(...) of a non-empty collection of strings
MinText(S) == CHOOSE e \in S : \A f \in S : StrLeq(e, f)

\* df[df['expiration'] == earliest_expiration]
WithExpiration(options_chain_df, earliest_expiration) ==
    LET Keep(row) == row.expiration = earliest_expiration
    IN  SelectSeq(options_chain_df, Keep)

\* get_and_save_earliest_expiring_contracts: the value returned or the error
\* raised, and the file written if any
GetAndSaveEarliestExpiringContracts(options_chain_df, current_time) ==
    IF IsEmptyFrame(options_chain_df)
    THEN [result |-> Ok(<<>>), wrote |-> <<>>]
    ELSE LET current_date_str == StrfDate(current_time)
             future == FutureExpirations(options_chain_df, current_date_str)
         IN  IF future = {}
             THEN [result |-> Failed("ValueError: min() arg is an empty sequence"),
                   wrote |-> <<>>]
             ELSE LET earliest_expiring_contracts ==
                          WithExpiration(options_chain_df, MinText(future))
                  IN  [result |-> Ok(earliest_expiring_contracts),
                       wrote |-> <<[path |-> EarliestCsvPath,
                                    content |-> earliest_expiring_contracts]>>]

-----------------------------------------------------------------------------
(* What the providers and the callers may hand to the program *)

SeqUpTo(S, n) == UNION {[1..k -> S] : k \in 0..n}

EmptyFn == [x \in {} |-> x]

IdA == <<65>>         \* "A"
IdAB == <<65, 66>>    \* "AB"
IdB == <<66>>         \* "B"

Iso(y, m, d) == Pad4(y) \o Dash \o Pad2(m) \o Dash \o Pad2(d)

ExpPast == Iso(2025, 1, 17)
ExpSoon == Iso(2025, 1, 31)
ExpLater == Iso(2025, 2, 21)
ExpMalformed == Pad2(2) \o Slash \o Pad2(21) \o Slash \o Pad4(2025)   \* "02/21/2025"
NotANumber == <<78, 47, 65>>                                          \* "N/A"

\* A field that may be missing from a JSON object
OptField(key, values) == {EmptyFn} \cup {key :> v : v \in values}

\* Raw contracts of an Alpha Vantage response. The fields left out here are
\* absent and take their defaults.
RawContracts ==
    {("type" :> Txt("call")) @@ id @@ ("strike" :> strike)
                             @@ ("expiration" :> Txt(expiration)) @@ volume :
        id \in OptField("contractID", {Txt(IdA), Txt(IdB)}),
        strike \in {DecText(12345), Txt(NotANumber), Null},
        expiration \in {ExpSoon, ExpMalformed},
        volume \in OptField("volume", {IntText(5), Inf})}

AvFailures == {[kind |-> k] : k \in {"no_api_key", "request_exception", "error_message", "empty"}}

AvBodies(contracts, n) ==
    {[kind |-> "json", body |-> [Information |-> Txt(NotANumber)]]}
        \cup {[kind |-> "json", body |-> [data |-> d]] : d \in SeqUpTo(contracts, n)}

\* The responses with at most n raw contracts
AvResponses(n) == AvFailures \cup AvBodies(RawContracts, n)

YfRow(id) ==
    [contractSymbol |-> id, strike |-> Float(150125), volume |-> 10, openInterest |-> 20,
     impliedVolatility |-> Float(315), bid |-> Float(1005), ask |-> Float(1015)]

YfFrames(ids, n) ==
    {[kind |-> "none"]}
        \cup {[kind |-> "frame", columns_ok |-> c, rows |-> r] :
                c \in BOOLEAN, r \in SeqUpTo({YfRow(id) : id \in ids}, n)}

YfChains(frames) ==
    {[fetch |-> "raise"]} \cup {[fetch |-> "ok", calls |-> c, puts |-> p] : c \in frames, p \in frames}

Range(f) == {f[i] : i \in DOMAIN f}

YfListings(dates, n, chains) ==
    UNION {{[kind |-> "listed", options |-> ds, chain |-> c] : c \in [Range(ds) -> chains]} :
            ds \in SeqUpTo(dates, n)}

\* The responses that list at most n dates, with frames of at most m rows
YfResponses(n, m) ==
    {[kind |-> "raise"]}
        \cup YfListings({ExpSoon, ExpLater}, n, YfChains(YfFrames({IdA, IdB}, m)))

\* The responses the aggregator is run on: one listed date, whole frames, and
\* normalizable raw contracts that differ in their contractID only.
WholeFrames(ids, n) == {f \in YfFrames(ids, n) : f.kind = "frame" /\ f.columns_ok}

AggYfResponses ==
    {[kind |-> "raise"]}
        \cup YfListings({ExpLater}, 1,
                {[fetch |-> "raise"]}
                    \cup {[fetch |-> "ok", calls |-> c, puts |-> p] :
                            c \in WholeFrames({IdB}, MaxRows),
                            p \in WholeFrames({IdAB}, MaxRows)})

AggAvResponses ==
    {[kind |-> "request_exception"]}
        \cup AvBodies({c \in RawContracts :
                        /\ "contractID" \in DOMAIN c
                        /\ c.strike = DecText(12345)
                        /\ c.expiration = Txt(ExpSoon)
                        /\ "volume" \notin DOMAIN c}, MaxRaw)

\* The rows of the snapshots handed to the expiration filter
FilterRow(id, expiration) ==
    [contract_id |-> id, type |-> "call", strike |-> Float(150120), expiration |-> expiration,
     volume |-> 10, open_interest |-> 20, implied_volatility |-> Float(320),
     bid |-> Float(1000), ask |-> Float(1020), source |-> "yfinance"]

FilterRows ==
    {FilterRow(id, e) : id \in {IdA, IdB}, e \in {ExpPast, ExpSoon, ExpLater}}

Snapshots == SeqUpTo(FilterRows, MaxSnap)

Nasdaq == <<110, 97, 115, 100, 97, 113>>   \* "nasdaq"
Meta == <<109, 101, 116, 97>>              \* "meta"
CurrentDir == <<46>>                       \* "."

\* The responses of the repeated runs of main: each provider fails or
\* returns one contract
RunYfResponses ==
    {[kind |-> "raise"],
     [kind |-> "listed", options |-> <<ExpLater>>,
      chain |-> (ExpLater :> [fetch |-> "ok",
                              calls |-> [kind |-> "frame", columns_ok |-> TRUE,
                                         rows |-> <<YfRow(IdB)>>],
                              puts |-> [kind |-> "frame", columns_ok |-> TRUE,
                                        rows |-> <<>>]])]}

RunAvResponses ==
    {[kind |-> "request_exception"],
     [kind |-> "json",
      body |-> [data |-> <<[contractID |-> Txt(IdA), type |-> Txt("call"),
                            strike |-> DecText(12345), expiration |-> Txt(ExpSoon)]>>]]}

-----------------------------------------------------------------------------
(* The program *)

\* No invocation was made yet and no file was written
Init ==
    /\ files = EmptyFn
    /\ calls = 0
    /\ call = [op |-> "none"]

\* The file systems an invocation may find: nothing, or the files an earlier
\* run left at 2025-01-30 00:00:00
FoundFiles ==
    {EmptyFn,
     Written(EmptyFn, <<[path |-> EarliestCsvPath]>>),
     Written(EmptyFn, <<[path |-> Filepath(CurrentDir,
                            Filename(Nasdaq, Meta, [day |-> 0, sec |-> 0, sub |-> 0]))]>>)}

\* No invocation was made yet by this process
InitFound ==
    /\ files \in FoundFiles
    /\ calls = 0
    /\ call = [op |-> "none"]

\* A call of get_options_chain_from_alphavantage
CallAlphavantage ==
    /\ \E response \in AvResponses(MaxRaw) :
          call' = [op |-> "alphavantage", response |-> response,
                   result |-> GetOptionsChainFromAlphavantage(response)]
    /\ calls' = calls + 1
    /\ UNCHANGED files

\* A call of get_options_chain_from_yfinance
CallYfinance ==
    /\ \E response \in YfResponses(MaxDates, MaxRows) :
          call' = [op |-> "yfinance", response |-> response,
                   result |-> GetOptionsChainFromYfinance(response)]
    /\ calls' = calls + 1
    /\ UNCHANGED files

\* A call of get_and_save_aggregate_options_chain("nasdaq", "meta"), as main
\* makes it, the providers answering with one of yfs and one of avs
Aggregate(yfs, avs) ==
    /\ \E current_time \in Clock, yf \in yfs, av \in avs :
          LET yf_data == GetOptionsChainFromYfinance(yf)
              av_data == GetOptionsChainFromAlphavantage(av)
          IN  \E out \in GetAndSaveAggregateOptionsChain(Nasdaq, Meta, CurrentDir, current_time, yf_data, av_data) :
                  /\ call' = [op |-> "aggregate", current_time |-> current_time,
                              yf_data |-> yf_data, av_data |-> av_data,
                              result |-> out.result, wrote |-> out.wrote]
                  /\ files' = Written(files, out.wrote)
    /\ calls' = calls + 1

\* A call of get_and_save_earliest_expiring_contracts on one of dfs
Filter(dfs) ==
    /\ \E current_time \in Clock, options_chain_df \in dfs :
          LET out == GetAndSaveEarliestExpiringContracts(options_chain_df, current_time)
          IN  /\ call' = [op |-> "filter", current_time |-> current_time,
                          options_chain_df |-> options_chain_df,
                          result |-> out.result, wrote |-> out.wrote]
              /\ files' = Written(files, out.wrote)
    /\ calls' = calls + 1

\* One call of an adapter, of the aggregator, of the filter
OneAlphavantage == calls = 0 /\ CallAlphavantage
OneYfinance == calls = 0 /\ CallYfinance
OneAggregate == calls = 0 /\ Aggregate(AggYfResponses, AggAvResponses)
OneFilter == calls = 0 /\ Filter(Snapshots)

\* main, run again and again: the aggregator, then the filter on what the
\* aggregator returned (an exception of the aggregator ends the run)
MainAggregate == calls < MaxCalls /\ Aggregate(RunYfResponses, RunAvResponses)
MainFilter ==
    /\ calls < MaxCalls
    /\ call.op = "aggregate"
    /\ call.result.status = "ok"
    /\ Filter({call.result.rows})

Next == OneAlphavantage \/ OneYfinance \/ OneAggregate \/ OneFilter \/ MainAggregate \/ MainFilter

Spec == InitFound /\ [][Next]_vars

SpecAlphavantage == Init /\ [][OneAlphavantage]_vars

SpecYfinance == Init /\ [][OneYfinance]_vars

SpecAggregate == InitFound /\ [][OneAggregate]_vars

SpecFilter == InitFound /\ [][OneFilter]_vars

SpecMain == Init /\ [][MainAggregate \/ MainFilter]_vars

-----------------------------------------------------------------------------
(* The properties *)

\* The lexicographic order of text, by head and tail
RECURSIVE LexLeq(_, _)
LexLeq(a, b) ==
    IF a = <<>> THEN TRUE
    ELSE IF b = <<>> THEN FALSE
    ELSE IF Head(a) < Head(b) THEN TRUE
    ELSE IF Head(a) > Head(b) THEN FALSE
    ELSE LexLeq(Tail(a), Tail(b))

AscendingById(rows) ==
    \A i \in 1..(Len(rows) - 1) : LexLeq(rows[i].contract_id, rows[i + 1].contract_id)

\* How many rows have contract_id id
CountId(rows, id) == Cardinality({i \in 1..Len(rows) : rows[i].contract_id = id})

\* How many rows have contract_id id and were tagged with source
CountTagged(rows, id, source) ==
    Cardinality({i \in 1..Len(rows) : rows[i].contract_id = id /\ rows[i].source = source})

\* The rows of df that expire on date e, in the order of df
RECURSIVE ExpiringOn(_, _)
ExpiringOn(df, e) ==
    IF df = <<>> THEN <<>>
    ELSE IF Head(df).expiration = e THEN <<Head(df)>> \o ExpiringOn(Tail(df), e)
    ELSE ExpiringOn(Tail(df), e)

AdapterFailed == call.yf_data.status = "error" \/ call.av_data.status = "error"

\* C1: whenever at least one of the two adapters fails, the aggregator fails,
\* returns no snapshot and writes no file: the file system is left as it was.
C1_FailsClosed ==
    [][(call'.op = "aggregate" /\ AdapterFailed')
          => /\ call'.result.status = "error"
             /\ call'.wrote = <<>>
             /\ files' = files]_vars

\* yfinance returned a record, Alpha Vantage failed, and the aggregator failed
C1_Witness ==
    /\ call.op = "aggregate"
    /\ call.yf_data.status = "ok" /\ Len(call.yf_data.rows) >= 1
    /\ call.av_data.status = "error"
    /\ call.result.status = "error"
    /\ files # EmptyFn

\* C2: the snapshot the aggregator returns is in ascending lexicographic order
\* of contract_id, and so is every outcome of the sort when the two adapters'
\* rows are concatenated in the other order.
C2_SortedByContractId ==
    (call.op = "aggregate" /\ call.result.status = "ok")
        => /\ AscendingById(call.result.rows)
           /\ \A s \in SortValues(Tagged(call.av_data.rows, "alphavantage")
                                    \o Tagged(call.yf_data.rows, "yfinance")) :
                  AscendingById(s)

\* Three rows or more, concatenated out of order, one id a prefix of another
C2_Witness ==
    /\ call.op = "aggregate"
    /\ call.result.status = "ok"
    /\ Len(call.result.rows) >= 3
    /\ ~AscendingById(call.yf_data.rows \o call.av_data.rows)
    /\ \E i \in 1..Len(call.result.rows) : call.result.rows[i].contract_id = IdA
    /\ \E i \in 1..Len(call.result.rows) : call.result.rows[i].contract_id = IdAB

\* C3: when both adapters succeed the aggregator succeeds, and its snapshot has
\* as many rows as the two adapters returned together: for every contract_id,
\* as many rows tagged yfinance as yfinance returned and as many tagged
\* alphavantage as Alpha Vantage returned, and no row with another tag.
C3_AllRecordsKept ==
    (call.op = "aggregate" /\ ~AdapterFailed)
        => /\ call.result.status = "ok"
           /\ Len(call.result.rows) = Len(call.yf_data.rows) + Len(call.av_data.rows)
           /\ \A i \in 1..Len(call.result.rows) :
                  call.result.rows[i].source \in {"yfinance", "alphavantage"}
           /\ \A id \in {IdA, IdAB, IdB} :
                  /\ CountTagged(call.result.rows, id, "yfinance") = CountId(call.yf_data.rows, id)
                  /\ CountTagged(call.result.rows, id, "alphavantage") = CountId(call.av_data.rows, id)

\* Both adapters returned a row with the same contract_id, and both are kept
C3_Witness ==
    /\ call.op = "aggregate"
    /\ call.result.status = "ok"
    /\ CountId(call.yf_data.rows, IdB) >= 1
    /\ CountId(call.av_data.rows, IdB) >= 1
    /\ CountId(call.result.rows, IdB) >= 2

Today == StrfDate(call.current_time)

HasFuture(df) == \E i \in 1..Len(df) : LexLeq(Today, df[i].expiration)

\* C4: for a non-empty snapshot with a record expiring today or later, the
\* filter returns the records expiring on the earliest date that is today or
\* later, in the order of the snapshot, and nothing else.
C4_EarliestExpiring ==
    (call.op = "filter" /\ call.options_chain_df # <<>> /\ HasFuture(call.options_chain_df))
        => \E i \in 1..Len(call.options_chain_df) :
              LET e == call.options_chain_df[i].expiration
              IN  /\ LexLeq(Today, e)
                  /\ \A j \in 1..Len(call.options_chain_df) :
                        LexLeq(Today, call.options_chain_df[j].expiration)
                            => LexLeq(e, call.options_chain_df[j].expiration)
                  /\ call.result = Ok(ExpiringOn(call.options_chain_df, e))

\* A snapshot with a past record between two records of the earliest coming
\* date, the second with the smaller contract_id
C4_Witness ==
    /\ call.op = "filter"
    /\ call.result.status = "ok"
    /\ Len(call.options_chain_df) = 3
    /\ ~LexLeq(Today, call.options_chain_df[2].expiration)
    /\ Len(call.result.rows) = 2
    /\ call.result.rows[1].contract_id = IdB
    /\ call.result.rows[2].contract_id = IdA

\* C5: for a non-empty snapshot whose records all expired before today, the
\* filter fails with NoFutureContracts.
C5_NoFutureContracts ==
    (call.op = "filter" /\ call.options_chain_df # <<>> /\ ~HasFuture(call.options_chain_df))
        => call.result = Failed("NoFutureContracts")

\* C6: on an empty snapshot the filter returns an empty result without raising
\* and leaves the file system as it was.
C6_EmptySnapshotNoWrite ==
    [][(call'.op = "filter" /\ call'.options_chain_df = <<>>)
          => /\ call'.result = Ok(<<>>)
             /\ files' = files]_vars

\* The filter ran on an empty snapshot where earliest_expiring_contracts.csv
\* was there, and the file is as it was
C6_Witness ==
    /\ call.op = "filter"
    /\ call.options_chain_df = <<>>
    /\ call.result.status = "ok"
    /\ EarliestCsvPath \in DOMAIN files
    /\ files[EarliestCsvPath].writes = 1

Normalizable(contract) == OptionData(contract).exc = "none"

RECURSIVE Normalized(_)
Normalized(data) ==
    IF data = <<>> THEN <<>>
    ELSE IF Normalizable(Head(data))
    THEN <<OptionData(Head(data)).val>> \o Normalized(Tail(data))
    ELSE Normalized(Tail(data))

\* C7: the Alpha Vantage adapter drops each raw record that cannot be
\* normalized and goes on: it returns the normalizable records in their order,
\* and fails with NoValidRecords exactly when there is none.
C7_BadRecordsDropped ==
    (call.op = "alphavantage" /\ call.response.kind = "json"
        /\ "data" \in DOMAIN call.response.body)
        => IF Normalized(call.response.body.data) = <<>>
           THEN call.result = Failed("NoValidRecords")
           ELSE call.result = Ok(Normalized(call.response.body.data))

IsDigit(c) == c >= 48 /\ c <= 57

\* Well-formed ISO 8601 calendar date text, YYYY-MM-DD.
IsISODate(s) ==
    /\ Len(s) = 10
    /\ s[5] = 45 /\ s[8] = 45
    /\ \A i \in {1, 2, 3, 4, 6, 7, 9, 10} : IsDigit(s[i])
    /\ LET m == (s[6] - 48) * 10 + (s[7] - 48)
           d == (s[9] - 48) * 10 + (s[10] - 48)
       IN  m >= 1 /\ m <= 12 /\ d >= 1 /\ d <= 31

\* C8: every record an adapter emits has a well-formed ISO expiration date.
C8_ExpirationWellFormed ==
    (call.op = "alphavantage" /\ call.result.status = "ok")
        => \A i \in 1..Len(call.result.rows) : IsISODate(call.result.rows[i].expiration)

\* Fetching or processing the chain of a date fails
DateFails(chain) ==
    \/ chain.fetch = "raise"
    \/ chain.calls.kind = "none" \/ chain.puts.kind = "none"
    \/ ~chain.calls.columns_ok \/ ~chain.puts.columns_ok

RowsExpiringOn(rows, date) == Cardinality({i \in 1..Len(rows) : rows[i].expiration = date})

TimesListed(options, date) == Cardinality({i \in 1..Len(options) : options[i] = date})

\* C9: in the yfinance adapter a date whose chain fails contributes no
\* contract, every other date contributes all its calls and puts, and the
\* adapter fails only when no date yields data.
C9_FailedDateOmitted ==
    (call.op = "yfinance" /\ call.response.kind = "listed")
        => LET options == call.response.options
               chain == call.response.chain
               rows == RowsOf(call.result)
           IN  /\ \A d \in Range(options) :
                      IF DateFails(chain[d])
                      THEN RowsExpiringOn(rows, d) = 0
                      ELSE RowsExpiringOn(rows, d)
                             = TimesListed(options, d)
                                 * (Len(chain[d].calls.rows) + Len(chain[d].puts.rows))
               /\ call.result.status = "error"
                      => \A d \in Range(options) : DateFails(chain[d])

\* C10: no aggregate output file is written more than once: each successful
\* invocation of the aggregator writes a file no other invocation writes.
C10_NeverOverwritten ==
    \A p \in DOMAIN files : p # EarliestCsvPath => files[p].writes = 1

=============================================================================
